---- MODULE Spec2Model ----
(***************************************************************************)
(* scripts/utils/markdown_to_html.py: the Markdown to HTML transformer     *)
(* (convert_markdown_to_html) and its file driver (convert_file).          *)
(*                                                                         *)
(* A text is a sequence of tokens.  A character of the text is a string of *)
(* length one.  A piece of markup that the code inserts ("<ul>", "<li>",   *)
(* the pre/code pair, ...) is one token whose string starts with "<"; none *)
(* of the inserted strings holds a character that a later pattern reads    *)
(* (backtick, newline, asterisk, bracket, parenthesis), so a later pattern *)
(* treats such a token as it treats one ordinary character, and            *)
(* startswith('<') is true of it.  The two quote-bearing ends of the       *)
(* anchor tag are split so that every multi-character token starts "<".    *)
(***************************************************************************)
EXTENDS Integers, Sequences, FiniteSets, TLC

VARIABLES
    input,      \* the text handed to convert_markdown_to_html
    content,    \* the local `content`
    pc,         \* the statement convert_markdown_to_html is at
    lines,      \* the local `lines`
    idx,        \* how many of `lines` the list loop has processed
    result,     \* the local `result`
    in_ul,      \* the local `in_ul`
    in_ol       \* the local `in_ol`

VARIABLES
    fs,            \* the files and streams convert_file meets: the text and state
                   \* of the input file and of the template file, the state of
                   \* the output path and of standard output
    output_file,   \* whether convert_file is given an output_file
    template_file, \* whether convert_file is given a template_file
    title,         \* the argument `title`
    dpc,           \* the statement convert_file is at
    html_content,  \* the local `html_content`
    template,      \* the local `template`
    written,       \* the texts written to output_file, in order
    out,           \* what was printed to standard output, in order
    err,           \* what was printed to standard error, in order
    exit_status    \* the process's exit status once dpc = "done"

tvars == <<input, content, pc, lines, idx, result, in_ul, in_ol>>
dvars == <<fs, output_file, template_file, title, dpc, html_content, template,
           written, out, err, exit_status>>
vars == <<tvars, dvars>>

----------------------------------------------------------------------------
(* Characters *)

\* The backtick character (a TLA+ string cannot hold it).
BT == "'"
NL == "\n"
SP == " "
BS == "\\"

Letters ==
    {"a","b","c","d","e","f","g","h","i","j","k","l","m",
     "n","o","p","q","r","s","t","u","v","w","x","y","z",
     "A","B","C","D","E","F","G","H","I","J","K","L","M",
     "N","O","P","Q","R","S","T","U","V","W","X","Y","Z"}

Digits == {"0","1","2","3","4","5","6","7","8","9"}

\* The characters str.strip() removes.
Whitespace == {" ", "\t", "\r", "\n", "\f"}

Min(S) == CHOOSE x \in S : \A y \in S : x <= y

\* The first index >= from of a token of s in stop; Len(s) + 1 when none.
RunEnd(s, from, stop) ==
    LET P == {k \in from..Len(s) : s[k] \in stop}
    IN  IF P = {} THEN Len(s) + 1 ELSE Min(P)

\* The first index >= from of a token of s not in allowed; Len(s) + 1 when none.
SpanEnd(s, from, allowed) ==
    LET P == {k \in from..Len(s) : s[k] \notin allowed}
    IN  IF P = {} THEN Len(s) + 1 ELSE Min(P)

\* A token that is one character of the text (not a piece of inserted markup).
IsChar(tok) == Len(tok) = 1

RECURSIVE Flatten(_)
Flatten(ss) == IF ss = <<>> THEN <<>> ELSE Head(ss) \o Flatten(Tail(ss))

\* The string of a sequence of characters.
RECURSIVE Str(_)
Str(cs) == IF cs = <<>> THEN "" ELSE Head(cs) \o Str(Tail(cs))

\* str.split('\n')
RECURSIVE Split(_)
Split(s) ==
    LET k == RunEnd(s, 1, {NL})
    IN  IF k > Len(s) THEN <<s>>
        ELSE <<SubSeq(s, 1, k - 1)>> \o Split(SubSeq(s, k + 1, Len(s)))

\* '\n'.join(ls)
RECURSIVE Join(_)
Join(ls) ==
    IF ls = <<>> THEN <<>>
    ELSE IF Len(ls) = 1 THEN ls[1]
    ELSE ls[1] \o <<NL>> \o Join(Tail(ls))

----------------------------------------------------------------------------
(* Fenced code blocks *)

PreOpen(lang) ==
    "<pre class=\"language-" \o lang \o " line-numbers\"><code class=\"language-"
        \o lang \o "\">"
PreClose == "</code></pre>"

IsFence(s, k) ==
    k >= 1 /\ k + 2 <= Len(s) /\ s[k] = BT /\ s[k + 1] = BT /\ s[k + 2] = BT

\* The first fence starting at or after `from`; 0 when none.
NextFence(s, from) ==
    LET P == {k \in from..(Len(s) - 2) : IsFence(s, k)}
    IN  IF P = {} THEN 0 ELSE Min(P)

NoMatch == [ok |-> FALSE, nxt |-> 0, rep |-> <<>>]

\* \n?([\s\S]*?)``` from index j: the optional newline, the shortest body, the
\* closing fence.
FenceBody(s, j, lang) ==
    LET b == IF j <= Len(s) /\ s[j] = NL THEN j + 1 ELSE j
        c == NextFence(s, b)
    IN  IF c = 0 THEN NoMatch
        ELSE [ok |-> TRUE, nxt |-> c + 3,
              rep |-> <<PreOpen(lang)>> \o SubSeq(s, b, c - 1) \o <<PreClose>>]

\* r'```dart\n?([\s\S]*?)```' at index i
MatchFenceDart(s, i) ==
    IF IsFence(s, i) /\ i + 6 <= Len(s)
       /\ SubSeq(s, i + 3, i + 6) = <<"d", "a", "r", "t">>
    THEN FenceBody(s, i + 7, "dart")
    ELSE NoMatch

\* r'```([a-zA-Z]*)\n?([\s\S]*?)```' at index i
MatchFenceTag(s, i) ==
    IF IsFence(s, i)
    THEN LET e == SpanEnd(s, i + 3, Letters)
         IN  FenceBody(s, e, Str(SubSeq(s, i + 3, e - 1)))
    ELSE NoMatch

\* r'```\n?([\s\S]*?)```' at index i
MatchFencePlain(s, i) ==
    IF IsFence(s, i) THEN FenceBody(s, i + 3, "dart") ELSE NoMatch

----------------------------------------------------------------------------
(* Inline code, emphasis, links *)

\* r'`([^`\n]+)`' at index i
MatchInlineCode(s, i) ==
    IF s[i] = BT
    THEN LET e == RunEnd(s, i + 1, {BT, NL})
         IN  IF e > i + 1 /\ e <= Len(s) /\ s[e] = BT
             THEN [ok |-> TRUE, nxt |-> e + 1,
                   rep |-> <<"<code>">> \o SubSeq(s, i + 1, e - 1) \o <<"</code>">>]
             ELSE NoMatch
    ELSE NoMatch

\* r'\*\*([^\*]+)\*\*' at index i
MatchBold(s, i) ==
    IF i + 1 <= Len(s) /\ s[i] = "*" /\ s[i + 1] = "*"
    THEN LET e == RunEnd(s, i + 2, {"*"})
         IN  IF e > i + 2 /\ e + 1 <= Len(s) /\ s[e + 1] = "*"
             THEN [ok |-> TRUE, nxt |-> e + 2,
                   rep |-> <<"<strong>">> \o SubSeq(s, i + 2, e - 1) \o <<"</strong>">>]
             ELSE NoMatch
    ELSE NoMatch

\* r'\*([^\*]+)\*' at index i
MatchItalic(s, i) ==
    IF s[i] = "*"
    THEN LET e == RunEnd(s, i + 1, {"*"})
         IN  IF e > i + 1 /\ e <= Len(s)
             THEN [ok |-> TRUE, nxt |-> e + 1,
                   rep |-> <<"<em>">> \o SubSeq(s, i + 1, e - 1) \o <<"</em>">>]
             ELSE NoMatch
    ELSE NoMatch

\* r'\[([^\]]+)\]\(([^\)]+)\)' at index i
MatchLink(s, i) ==
    IF s[i] = "["
    THEN LET e == RunEnd(s, i + 1, {"]"})
             f == RunEnd(s, e + 2, {")"})
         IN  IF e > i + 1 /\ e + 1 <= Len(s) /\ s[e + 1] = "("
                /\ f > e + 2 /\ f <= Len(s)
             THEN [ok |-> TRUE, nxt |-> f + 1,
                   rep |-> <<"<a href=", "\"">> \o SubSeq(s, e + 2, f - 1)
                           \o <<"\"", ">">> \o SubSeq(s, i + 1, e - 1) \o <<"</a>">>]
             ELSE NoMatch
    ELSE NoMatch

Match(p, s, i) ==
    CASE p = "fence_dart"  -> MatchFenceDart(s, i)
      [] p = "fence_tag"   -> MatchFenceTag(s, i)
      [] p = "fence_plain" -> MatchFencePlain(s, i)
      [] p = "inline_code" -> MatchInlineCode(s, i)
      [] p = "bold"        -> MatchBold(s, i)
      [] p = "italic"      -> MatchItalic(s, i)
      [] p = "links"       -> MatchLink(s, i)

\* re.sub(p, replacement, s), from index i on: the leftmost match, replaced, and
\* the search goes on after it.
RECURSIVE SubFrom(_, _, _)
SubFrom(p, s, i) ==
    IF i > Len(s) THEN <<>>
    ELSE LET m == Match(p, s, i)
         IN  IF m.ok THEN m.rep \o SubFrom(p, s, m.nxt)
             ELSE <<s[i]>> \o SubFrom(p, s, i + 1)

Sub(p, s) == SubFrom(p, s, 1)

----------------------------------------------------------------------------
(* Headers *)

HashRun(n) == [k \in 1..n |-> "#"]
HTag(n) == "<h" \o ToString(n) \o ">"
HEnd(n) == "</h" \o ToString(n) \o ">"

\* r'^#{n} (.+)$' on one line
HeaderLine(n, line) ==
    IF Len(line) >= n + 2 /\ SubSeq(line, 1, n) = HashRun(n) /\ line[n + 1] = SP
    THEN <<HTag(n)>> \o SubSeq(line, n + 2, Len(line)) \o <<HEnd(n)>>
    ELSE line

\* re.sub(r'^#{n} (.+)$', r'<hn>\1</hn>', s, flags=re.MULTILINE)
SubHeader(n, s) ==
    LET ls == Split(s) IN Join([k \in 1..Len(ls) |-> HeaderLine(n, ls[k])])

----------------------------------------------------------------------------
(* The list loop *)

\* re.match(r'^- ', line)
IsBullet(line) == Len(line) >= 2 /\ line[1] = "-" /\ line[2] = SP

\* The index after the match of r'^[0-9]+\\. ' (digits, a backslash, any one
\* character, a space); 0 when the line does not match.
NumberedEnd(line) ==
    LET e == SpanEnd(line, 1, Digits)
    IN  IF e > 1 /\ e + 2 <= Len(line) /\ line[e] = BS /\ IsChar(line[e + 1])
           /\ line[e + 2] = SP
        THEN e + 3 ELSE 0

IsNumbered(line) == NumberedEnd(line) # 0

Li(body) == <<"<li>">> \o body \o <<"</li>">>

\* BulletStep without `in_ol = False`.
BulletStepKeepsOl(st, line) ==
    LET r1 == IF ~st.in_ul THEN Append(st.result, <<"<ul>">>) ELSE st.result
        r2 == IF st.in_ol THEN Append(r1, <<"</ol>">>) ELSE r1
    IN  [result |-> Append(r2, Li(SubSeq(line, 3, Len(line)))),
         in_ul |-> TRUE, in_ol |-> st.in_ol]

\* The loop state is [result, in_ul, in_ol].
\* The `if re.match(r'^- ', line)` branch.
BulletStep(st, line) ==
    LET r1 == IF ~st.in_ul THEN Append(st.result, <<"<ul>">>) ELSE st.result
        r2 == IF st.in_ol THEN Append(r1, <<"</ol>">>) ELSE r1
    IN  [result |-> Append(r2, Li(SubSeq(line, 3, Len(line)))),
         in_ul |-> TRUE, in_ol |-> FALSE]

\* The `elif re.match(r'^[0-9]+\\. ', line)` branch.
NumberedStep(st, line) ==
    LET r1 == IF ~st.in_ol THEN Append(st.result, <<"<ol>">>) ELSE st.result
        r2 == IF st.in_ul THEN Append(r1, <<"</ul>">>) ELSE r1
    IN  [result |-> Append(r2, Li(SubSeq(line, NumberedEnd(line), Len(line)))),
         in_ul |-> FALSE, in_ol |-> TRUE]

\* The `else` branch.
OtherStep(st, line) ==
    LET r1 == IF st.in_ul THEN Append(st.result, <<"</ul>">>) ELSE st.result
        r2 == IF st.in_ol THEN Append(r1, <<"</ol>">>) ELSE r1
    IN  [result |-> Append(r2, line), in_ul |-> FALSE, in_ol |-> FALSE]

\* One iteration of `for line in lines`.
LineStep(st, line) ==
    IF IsBullet(line) THEN BulletStep(st, line)
    ELSE IF IsNumbered(line) THEN NumberedStep(st, line)
    ELSE OtherStep(st, line)

\* The two `if` statements after the loop.
CloseOpen(st) ==
    LET r1 == IF st.in_ul THEN Append(st.result, <<"</ul>">>) ELSE st.result
    IN  IF st.in_ol THEN Append(r1, <<"</ol>">>) ELSE r1

----------------------------------------------------------------------------
(* Paragraphs *)

\* line.strip() is not empty
NonBlank(line) == \E k \in 1..Len(line) : line[k] \notin Whitespace

\* line.startswith('<')
StartsWithLt(line) == Len(line) >= 1 /\ (line[1] = "<" \/ ~IsChar(line[1]))

\* ShouldWrap without `not line.startswith('<')`.
ShouldWrapAnyNonBlank(line) == NonBlank(line) /\ line # <<"<", "b", "r", ">">>

\* The condition of the `if` in the paragraph loop.
ShouldWrap(line) ==
    NonBlank(line) /\ ~StartsWithLt(line) /\ line # <<"<", "b", "r", ">">>

WrapLine(line) ==
    IF ShouldWrap(line) THEN <<"<p>">> \o line \o <<"</p>">> ELSE line

WrapAll(ls) == [k \in 1..Len(ls) |-> WrapLine(ls[k])]

----------------------------------------------------------------------------
(* convert_markdown_to_html as one function *)

RECURSIVE ListLoop(_, _, _)
ListLoop(st, ls, k) ==
    IF k > Len(ls) THEN st
    ELSE ListLoop(LineStep(st, ls[k]), ls, k + 1)

Lists(s) ==
    Join(CloseOpen(ListLoop([result |-> <<>>, in_ul |-> FALSE, in_ol |-> FALSE],
                            Split(s), 1)))

Fences(s) == Sub("fence_plain", Sub("fence_tag", Sub("fence_dart", s)))
Headers(s) == SubHeader(4, SubHeader(3, SubHeader(2, SubHeader(1, s))))
Emphasis(s) == Sub("italic", Sub("bold", s))
Paragraphs(s) == Join(WrapAll(Split(s)))

convert_markdown_to_html(s) ==
    Paragraphs(Sub("links", Emphasis(Lists(Headers(Sub("inline_code", Fences(s)))))))

----------------------------------------------------------------------------
(* The documents the transformer is run on *)

MaxBlocks == 4

Blocks ==
    {<<BT, BT, BT, "d", "a", "r", "t", NL>>,
     <<BT, BT, BT, "j", "s", NL>>,
     <<BT, BT, BT, NL>>,
     <<BT, BT, BT>>,
     <<"x", NL>>,
     <<"-", SP, "a", NL>>,
     <<"1", BS, ".", SP, "b", NL>>,
     <<"y">>}

Samples ==
    {<<"#", SP, "T", NL, NL, "S", SP, "*", "t", "*", ".", NL, NL, "-", SP, "o", NL, "-", SP, "w", NL>>,
     <<"*", "*", "b", "*", "*", SP, "a", "n", "d", SP, "*", "i", "*">>,
     <<"[", "t", "]", "(", "u", ")">>,
     <<"#", "#", "#", SP, "T">>,
     <<"a", SP, BT, "c", BT, SP, "d">>,
     <<"#", "#", SP, "H", NL, "#", "#", "#", "#", SP, "H">>,
     <<BT, BT, BT, "d", "a", "r", "t", NL, "x", NL, "y", NL, BT, BT, BT, NL>>,
     <<"1", ".", SP, "b", NL, "*", "e", "*">>,
     <<"y", BT, BT, BT, "d", "a", "r", "t", NL, "x", NL, BT, BT, BT>>}

Inputs ==
    {Flatten(bs) : bs \in UNION {[1..n -> Blocks] : n \in 0..MaxBlocks}} \cup Samples

----------------------------------------------------------------------------
(* convert_markdown_to_html, statement by statement *)

\* convert_file is not running.
DIdle ==
    /\ fs = [input_text |-> <<>>, input |-> "ok", template_text |-> <<>>,
             template |-> "ok", output |-> "ok", stdout |-> "ok"]
    /\ output_file = FALSE
    /\ template_file = FALSE
    /\ title = <<>>
    /\ dpc = "idle"
    /\ html_content = <<>>
    /\ template = <<>>
    /\ written = <<>>
    /\ out = <<>>
    /\ err = <<>>
    /\ exit_status = 0

TInit ==
    /\ DIdle
    /\ input \in Inputs
    /\ content = input
    /\ pc = "fence_dart"
    /\ lines = <<>>
    /\ idx = 0
    /\ result = <<>>
    /\ in_ul = FALSE
    /\ in_ol = FALSE

Rewrite(at, to, new) ==
    /\ pc = at
    /\ content' = new
    /\ pc' = to
    /\ UNCHANGED <<input, lines, idx, result, in_ul, in_ol, dvars>>

FenceDart == Rewrite("fence_dart", "fence_tag", Sub("fence_dart", content))
FenceTag == Rewrite("fence_tag", "fence_plain", Sub("fence_tag", content))
FencePlain == Rewrite("fence_plain", "inline_code", Sub("fence_plain", content))
InlineCode == Rewrite("inline_code", "headers", Sub("inline_code", content))
HeaderSubs == Rewrite("headers", "list_split", Headers(content))

ListSplit ==
    /\ pc = "list_split"
    /\ lines' = Split(content)
    /\ result' = <<>>
    /\ in_ul' = FALSE
    /\ in_ol' = FALSE
    /\ idx' = 0
    /\ pc' = "list_loop"
    /\ UNCHANGED <<input, content, dvars>>

ScanLine ==
    /\ pc = "list_loop"
    /\ idx < Len(lines)
    /\ LET st == LineStep([result |-> result, in_ul |-> in_ul, in_ol |-> in_ol],
                          lines[idx + 1])
       IN  /\ result' = st.result
           /\ in_ul' = st.in_ul
           /\ in_ol' = st.in_ol
    /\ idx' = idx + 1
    /\ UNCHANGED <<input, content, pc, lines, dvars>>

ListJoin ==
    /\ pc = "list_loop"
    /\ idx = Len(lines)
    /\ result' = CloseOpen([result |-> result, in_ul |-> in_ul, in_ol |-> in_ol])
    /\ content' = Join(result')
    /\ pc' = "bold"
    /\ UNCHANGED <<input, lines, idx, in_ul, in_ol, dvars>>

Bold == Rewrite("bold", "italic", Sub("bold", content))
Italic == Rewrite("italic", "links", Sub("italic", content))
Links == Rewrite("links", "wrap", Sub("links", content))

WrapParagraphs ==
    /\ pc = "wrap"
    /\ lines' = Split(content)
    /\ result' = WrapAll(lines')
    /\ content' = Join(result')
    /\ pc' = "done"
    /\ UNCHANGED <<input, idx, in_ul, in_ol, dvars>>

TNext ==
    \/ FenceDart
    \/ FenceTag
    \/ FencePlain
    \/ InlineCode
    \/ HeaderSubs
    \/ ListSplit
    \/ ScanLine
    \/ ListJoin
    \/ Bold
    \/ Italic
    \/ Links
    \/ WrapParagraphs

Init == TInit
Next == TNext
Spec == Init /\ [][Next]_vars

\* The statement-by-statement run returns what the function returns.
StepsAgree == pc = "done" => content = convert_markdown_to_html(input)

----------------------------------------------------------------------------
(* The list loop: C1, C4, C10 *)

UL == <<"<ul>">>
ULEnd == <<"</ul>">>
OL == <<"<ol>">>
OLEnd == <<"</ol>">>

\* How many of r[1..k] equal x.
CountUpTo(r, k, x) == Cardinality({j \in 1..k : r[j] = x})

\* C1: when an item line of one list kind directly follows an item line of the
\* other kind, the loop emits the closing tag of the run it leaves before the
\* opening tag of the run it enters, so that in the emitted lines no <ul> is
\* opened while an <ol> is open and no <ol> while a <ul> is open.
C1_CloseBeforeOpen ==
    /\ (pc = "list_loop" /\ idx >= 2) =>
          LET n == Len(result)
          IN  /\ (IsNumbered(lines[idx - 1]) /\ IsBullet(lines[idx])) =>
                    (result[n - 2] = OLEnd /\ result[n - 1] = UL)
              /\ (IsBullet(lines[idx - 1]) /\ IsNumbered(lines[idx])) =>
                    (result[n - 2] = ULEnd /\ result[n - 1] = OL)
    /\ pc \in {"list_loop", "bold"} =>
          \A k \in 1..Len(result) :
              /\ result[k] = UL =>
                    CountUpTo(result, k, OL) = CountUpTo(result, k, OLEnd)
              /\ result[k] = OL =>
                    CountUpTo(result, k, UL) = CountUpTo(result, k, ULEnd)

\* The maximal runs of bullet lines of ls, as pairs <<first, last>>.
BulletRuns(ls) ==
    {<<a, b>> \in (1..Len(ls)) \X (1..Len(ls)) :
        /\ a <= b
        /\ \A j \in a..b : IsBullet(ls[j])
        /\ (a = 1 \/ ~IsBullet(ls[a - 1]))
        /\ (b = Len(ls) \/ ~IsBullet(ls[b + 1]))}

\* r[p..] holds <ul>, the items of ls[a..b] in order, </ul>, one after the other.
BlockAt(r, p, ls, a, b) ==
    /\ p + (b - a) + 2 <= Len(r)
    /\ r[p] = UL
    /\ \A j \in 0..(b - a) : r[p + 1 + j] = Li(SubSeq(ls[a + j], 3, Len(ls[a + j])))
    /\ r[p + (b - a) + 2] = ULEnd

\* C4: once the loop and the two closing `if`s have run, every maximal run of
\* k >= 1 bullet lines has given exactly one <ul> line, then its k <li> lines in
\* order, then exactly one </ul> line (also a run that ends the input).
C4_BulletRunBlock ==
    pc = "bold" =>
        /\ \A run \in BulletRuns(lines) :
              \E p \in 1..Len(result) : BlockAt(result, p, lines, run[1], run[2])
        /\ CountUpTo(result, Len(result), UL) = Cardinality(BulletRuns(lines))
        /\ CountUpTo(result, Len(result), ULEnd) = Cardinality(BulletRuns(lines))

\* C10: the two flags are never both true; they are both false before the first
\* line, and after each line exactly the flag of that line's kind is true (none
\* after a line that is no item).
C10_FlagsExclusive ==
    /\ ~(in_ul /\ in_ol)
    /\ (pc = "list_loop" /\ idx = 0) => (~in_ul /\ ~in_ol)
    /\ (pc = "list_loop" /\ idx >= 1) =>
          /\ in_ul = IsBullet(lines[idx])
          /\ in_ol = (~IsBullet(lines[idx]) /\ IsNumbered(lines[idx]))

\* A bullet line has just been processed right after a numbered line.
C10_Witness ==
    /\ pc = "list_loop"
    /\ idx >= 2
    /\ IsNumbered(lines[idx - 1])
    /\ IsBullet(lines[idx])
    /\ in_ul

----------------------------------------------------------------------------
(* Fenced code blocks: C2, C3 *)

\* The fences of s from index `from` on, left to right, none overlapping another.
RECURSIVE FenceStarts(_, _)
FenceStarts(s, from) ==
    LET f == NextFence(s, from)
    IN  IF f = 0 THEN <<>> ELSE <<f>> \o FenceStarts(s, f + 3)

\* The fenced blocks of s: the first fence opens a block, the next closes it, the
\* one after opens the next block.  Each block is [tag, body]: the letters after
\* its opening fence, and the text from after the tag and its newline to the
\* closing fence.
FencedBlocks(s) ==
    LET F == FenceStarts(s, 1)
    IN  [k \in 1..(Len(F) \div 2) |->
            LET o == F[2 * k - 1]
                e == SpanEnd(s, o + 3, Letters)
                b == IF e <= Len(s) /\ s[e] = NL THEN e + 1 ELSE e
            IN  [tag |-> Str(SubSeq(s, o + 3, e - 1)),
                 body |-> SubSeq(s, b, F[2 * k] - 1)]]

\* Every fence of s starts a line, no two fences overlap, and every closing fence
\* ends its line.
WellFenced(s) ==
    LET F == FenceStarts(s, 1)
    IN  /\ \A k \in 1..Len(s) : IsFence(s, k) => \E i \in 1..Len(F) : F[i] = k
        /\ \A i \in 1..Len(F) : F[i] = 1 \/ s[F[i] - 1] = NL
        /\ \A i \in 1..Len(F) :
              i % 2 = 0 => (F[i] + 3 > Len(s) \/ s[F[i] + 3] = NL)

\* The class suffix a block's tag asks for: the tag, or dart for a block with none.
WantedSuffix(tag) == IF tag = "" THEN "dart" ELSE tag

\* The letters that follow a fence of s, for every fence of s.
TagsOf(s) ==
    {Str(SubSeq(s, f + 3, SpanEnd(s, f + 3, Letters) - 1)) :
        f \in {k \in 1..Len(s) : IsFence(s, k)}}

\* A pre/code opening token, whatever its class suffix.
IsPreOpen(tok) == \E l \in TagsOf(input) \cup {"dart"} : tok = PreOpen(l)

\* C2: after the three fence passes every fenced block of the input has its
\* pre/code pair with the class suffix its tag asks for: dart for dart, the tag
\* for another tag, dart for no tag (never an empty suffix).  Stated for the
\* documents whose fences stand on lines of their own.
C2_ClassSuffix ==
    (pc = "inline_code" /\ WellFenced(input)) =>
        LET B == FencedBlocks(input)
            Opening(tok) == ~IsChar(tok) /\ tok # PreClose
        IN  SelectSeq(content, Opening)
                = [k \in 1..Len(B) |-> PreOpen(WantedSuffix(B[k].tag))]

\* t occurs in s as a run of consecutive tokens.
Occurs(t, s) ==
    \E p \in 0..(Len(s) - Len(t)) : SubSeq(s, p + 1, p + Len(t)) = t

\* C3: in what convert_markdown_to_html returns, the body of every fenced block of
\* the input stands unchanged between the opening pre/code token and
\* </code></pre>.  Stated for the documents whose fences stand on lines of their
\* own.
C3_BodyVerbatim ==
    (pc = "done" /\ WellFenced(input)) =>
        LET B == FencedBlocks(input)
        IN  \A k \in 1..Len(B) :
                \E l \in {"", "dart", B[k].tag} :
                    Occurs(<<PreOpen(l)>> \o B[k].body \o <<PreClose>>, content)

----------------------------------------------------------------------------
(* Paragraphs: C9 *)

\* The markup the earlier statements produce for lists, headings and code blocks.
IsBlockMarkup(tok) ==
    \/ tok \in {"<ul>", "</ul>", "<ol>", "</ol>", "<li>", PreClose}
    \/ tok \in {HTag(n) : n \in 1..4}
    \/ IsPreOpen(tok)

\* C9 as stated: the paragraph loop never wraps a line that holds list, heading or
\* code-block markup.
C9_NeverWrapsMarkup ==
    pc = "done" =>
        \A k \in 1..Len(lines) :
            result[k] # lines[k] =>
                \A j \in 1..Len(lines[k]) : ~IsBlockMarkup(lines[k][j])

\* C9 as amended: the paragraph loop wraps exactly the lines that are not blank
\* after trimming and do not start with '<' and passes every other line through;
\* so it never wraps a line that starts with markup, and does wrap a line in
\* which markup follows other text.
C9_WrapRule ==
    pc = "done" =>
        /\ Len(result) = Len(lines)
        /\ content = Join(result)
        /\ \A k \in 1..Len(lines) :
              LET line == lines[k]
                  blank == \A j \in 1..Len(line) : line[j] \in Whitespace
                  lt == line # <<>> /\ (line[1] = "<" \/ Len(line[1]) > 1)
              IN  /\ (~blank /\ ~lt) => result[k] = <<"<p>">> \o line \o <<"</p>">>
                  /\ (blank \/ lt) => result[k] = line

\* The paragraph loop has wrapped a line that holds code-block markup after other
\* text, and passed through a line that starts with markup.
C9_Witness ==
    /\ pc = "done"
    /\ \E k \in 1..Len(lines) :
          /\ result[k] = <<"<p>">> \o lines[k] \o <<"</p>">>
          /\ \E j \in 2..Len(lines[k]) : IsBlockMarkup(lines[k][j])
    /\ \E k \in 1..Len(lines) :
          /\ lines[k] # <<>>
          /\ IsBlockMarkup(lines[k][1])
          /\ result[k] = lines[k]

----------------------------------------------------------------------------
(* convert_file *)

\* A template and a title are sequences of tokens too; the placeholders are one
\* token each, and no other token holds a brace, so that an occurrence of a
\* placeholder in a text is an occurrence of its token.
TITLE == "{{TITLE}}"
CONTENT == "{{CONTENT}}"

\* s.replace(old, new), old one token
RECURSIVE Replace(_, _, _)
Replace(s, old, new) ==
    IF s = <<>> THEN <<>>
    ELSE (IF Head(s) = old THEN new ELSE <<Head(s)>>) \o Replace(Tail(s), old, new)

\* The two replace calls on the template.
FinalHtml(tpl, ttl, html) == Replace(Replace(tpl, TITLE, ttl), CONTENT, html)

Documents ==
    {<<"x">>,
     <<"-", SP, "a", NL>>,
     <<"#", SP, "T", NL, NL, "*", "e", "*">>}

Titles == {<<"T">>, <<"D", "o", "c">>, <<CONTENT>>}

Templates ==
    {<<"<html>", TITLE, CONTENT, "</html>">>,
     <<TITLE, "|", CONTENT, "|", TITLE>>,
     <<"<html>", "</html>">>}

\* open() of a path: it opens, or raises FileNotFoundError, or raises another
\* exception (PermissionError, IsADirectoryError, UnicodeDecodeError on read).
PathStates == {"ok", "FileNotFoundError", "PermissionError"}

\* print() to standard output: it prints, or raises (UnicodeEncodeError when the
\* stream's encoding cannot hold the text, BrokenPipeError on an unbuffered
\* stream).
StdoutStates == {"ok", "UnicodeEncodeError"}

DInit ==
    /\ input = <<>>
    /\ content = <<>>
    /\ pc = "idle"
    /\ lines = <<>>
    /\ idx = 0
    /\ result = <<>>
    /\ in_ul = FALSE
    /\ in_ol = FALSE
    /\ fs \in [input_text : Documents, input : PathStates,
                template_text : Templates, template : PathStates,
                output : PathStates, stdout : StdoutStates]
    /\ output_file \in BOOLEAN
    /\ template_file \in BOOLEAN
    /\ title \in Titles
    /\ dpc = "read_input"
    /\ html_content = <<>>
    /\ template = <<>>
    /\ written = <<>>
    /\ out = <<>>
    /\ err = <<>>
    /\ exit_status = 0

\* A line on standard error: the report printed, and the step whose exception
\* made the handler print it.
Report(kind, step, exc) == [report |-> kind, step |-> step, exc |-> exc]

\* Warn, but ending the run with status 1.
WarnFatal(step, exc) ==
    /\ err' = Append(err, Report("Warning: Template file not found", step, exc))
    /\ exit_status' = 1
    /\ dpc' = "done"

\* `except FileNotFoundError` of the inner try: the warning, and on to the
\* fallback.
Warn(step, exc) ==
    /\ err' = Append(err, Report("Warning: Template file not found", step, exc))
    /\ dpc' = "fallback"
    /\ UNCHANGED exit_status

\* `except FileNotFoundError` of the outer try.
ExitNotFound(step, exc) ==
    /\ err' = Append(err, Report("Error: File input_file not found", step, exc))
    /\ exit_status' = 1
    /\ dpc' = "done"

\* ExitError without `sys.exit(1)`.
ExitErrorNoExit(step, exc) ==
    /\ err' = Append(err, Report("Error converting file", step, exc))
    /\ dpc' = "done"
    /\ UNCHANGED exit_status

\* `except Exception as e` of the outer try.
ExitError(step, exc) ==
    /\ err' = Append(err, Report("Error converting file", step, exc))
    /\ exit_status' = 1
    /\ dpc' = "done"

\* Exception exc raised by `step`, inside the inner try or outside it.
Raise(step, exc, inner) ==
    IF exc = "FileNotFoundError"
    THEN IF inner THEN Warn(step, exc) ELSE ExitNotFound(step, exc)
    ELSE ExitError(step, exc)

\* with open(input_file, 'r', encoding='utf-8') as f: content = f.read(), and
\* html_content = convert_markdown_to_html(content)
ReadInput ==
    /\ dpc = "read_input"
    /\ \/ /\ fs.input = "ok"
          /\ html_content' = convert_markdown_to_html(fs.input_text)
          /\ dpc' = IF template_file /\ output_file THEN "read_template" ELSE "fallback"
          /\ UNCHANGED <<err, exit_status>>
       \/ /\ fs.input # "ok"
          /\ Raise("read_input", fs.input, FALSE)
          /\ UNCHANGED html_content
    /\ UNCHANGED <<tvars, fs, output_file, template_file, title, template, written, out>>

\* with open(template_file, 'r', encoding='utf-8') as f: template = f.read()
ReadTemplate ==
    /\ dpc = "read_template"
    /\ \/ /\ fs.template = "ok"
          /\ template' = fs.template_text
          /\ dpc' = "write_templated"
          /\ UNCHANGED <<err, exit_status>>
       \/ /\ fs.template # "ok"
          /\ Raise("read_template", fs.template, TRUE)
          /\ UNCHANGED template
    /\ UNCHANGED <<tvars, fs, output_file, template_file, title, html_content, written, out>>

\* The two replace calls, and with open(output_file, 'w') ...: f.write(final_html)
WriteTemplated ==
    /\ dpc = "write_templated"
    /\ \/ /\ fs.output = "ok"
          /\ written' = Append(written, FinalHtml(template, title, html_content))
          /\ dpc' = "print_templated"
          /\ UNCHANGED <<err, exit_status>>
       \/ /\ fs.output # "ok"
          /\ Raise("write_output", fs.output, TRUE)
          /\ UNCHANGED written
    /\ UNCHANGED <<tvars, fs, output_file, template_file, title, html_content, template, out>>

\* print(f"Converted ... using template ..."), and return
PrintTemplated ==
    /\ dpc = "print_templated"
    /\ \/ /\ fs.stdout = "ok"
          /\ out' = Append(out, <<"Converted using template">>)
          /\ dpc' = "done"
          /\ UNCHANGED <<err, exit_status>>
       \/ /\ fs.stdout # "ok"
          /\ Raise("print", fs.stdout, TRUE)
          /\ UNCHANGED out
    /\ UNCHANGED <<tvars, fs, output_file, template_file, title, html_content, template, written>>

\* if output_file: with open(output_file, 'w') ...: f.write(html_content)
WriteBare ==
    /\ dpc = "fallback"
    /\ output_file
    /\ \/ /\ fs.output = "ok"
          /\ written' = Append(written, html_content)
          /\ dpc' = "print_bare"
          /\ UNCHANGED <<err, exit_status>>
       \/ /\ fs.output # "ok"
          /\ Raise("write_output", fs.output, FALSE)
          /\ UNCHANGED written
    /\ UNCHANGED <<tvars, fs, output_file, template_file, title, html_content, template, out>>

\* print(f"Converted {input_file} to {output_file}")
PrintBare ==
    /\ dpc = "print_bare"
    /\ \/ /\ fs.stdout = "ok"
          /\ out' = Append(out, <<"Converted">>)
          /\ dpc' = "done"
          /\ UNCHANGED <<err, exit_status>>
       \/ /\ fs.stdout # "ok"
          /\ Raise("print", fs.stdout, FALSE)
          /\ UNCHANGED out
    /\ UNCHANGED <<tvars, fs, output_file, template_file, title, html_content, template, written>>

\* else: print(html_content)
PrintHtml ==
    /\ dpc = "fallback"
    /\ ~output_file
    /\ \/ /\ fs.stdout = "ok"
          /\ out' = Append(out, html_content)
          /\ dpc' = "done"
          /\ UNCHANGED <<err, exit_status>>
       \/ /\ fs.stdout # "ok"
          /\ Raise("print", fs.stdout, FALSE)
          /\ UNCHANGED out
    /\ UNCHANGED <<tvars, fs, output_file, template_file, title, html_content, template, written>>

DNext ==
    \/ ReadInput
    \/ ReadTemplate
    \/ WriteTemplated
    \/ PrintTemplated
    \/ WriteBare
    \/ PrintBare
    \/ PrintHtml

SpecFile == DInit /\ [][DNext]_vars

----------------------------------------------------------------------------
(* convert_file: C5, C6, C7, C8 *)

Warning(step) == Report("Warning: Template file not found", step, "FileNotFoundError")

\* C5: with a template and an output given, when the template is not found (and
\* the input is read, the output written and the confirmation printed), the run
\* does not fail: the one line on standard error is the warning, the bare HTML
\* of the input is what is written to the output, and the exit status is 0.
\* Whatever the later steps do, the missing template itself only prints the
\* warning and sends the run on to the fallback.
C5_TemplateNotFoundFallsBack ==
    /\ (/\ dpc = "fallback"
        /\ template_file /\ output_file
        /\ fs.template = "FileNotFoundError") =>
           /\ exit_status = 0
           /\ err = <<Warning("read_template")>>
           /\ written = <<>>
    /\ (/\ dpc = "done"
        /\ template_file /\ output_file
        /\ fs.input = "ok"
        /\ fs.template = "FileNotFoundError"
        /\ fs.output = "ok"
        /\ fs.stdout = "ok") =>
           /\ exit_status = 0
           /\ err = <<Warning("read_template")>>
           /\ written = <<convert_markdown_to_html(fs.input_text)>>

\* The run has ended after a missing template, with the bare HTML written.
C5_Witness ==
    /\ dpc = "done"
    /\ template_file /\ output_file
    /\ fs.template = "FileNotFoundError"
    /\ err = <<Warning("read_template")>>
    /\ written = <<html_content>>
    /\ html_content = <<"<p>", "x", "</p>">>
    /\ out = <<<<"Converted">>>>

\* The steps of the run whose exception reaches the outer try's handlers.
Escapes ==
    \/ fs.input # "ok"
    \/ template_file /\ output_file /\ fs.template \notin {"ok", "FileNotFoundError"}
    \/ output_file /\ fs.output # "ok"
    \/ fs.stdout # "ok"

\* C6: the run ends with status 1 exactly when the input is not found or another
\* exception of reading, writing or printing escapes, and with status 0
\* otherwise, a missing template included.
C6_ExitStatus ==
    dpc = "done" =>
        /\ exit_status \in {0, 1}
        /\ exit_status = 1 <=> Escapes
        /\ (fs.input = "FileNotFoundError") => exit_status = 1

\* The run has ended with status 1 after the input was read and transformed:
\* the output could not be opened.
C6_Witness ==
    /\ dpc = "done"
    /\ exit_status = 1
    /\ template_file /\ output_file
    /\ fs.input = "ok"
    /\ fs.template = "FileNotFoundError"
    /\ fs.output = "PermissionError"
    /\ html_content # <<>>
    /\ written = <<>>

\* The template with every TITLE token replaced by the title and every CONTENT
\* token by the HTML, each inserted as it is.
Substituted(tpl, ttl, html) ==
    Flatten([k \in 1..Len(tpl) |->
                IF tpl[k] = TITLE THEN ttl
                ELSE IF tpl[k] = CONTENT THEN html
                ELSE <<tpl[k]>>])

\* C7: what is written with a readable template is the template with its
\* {{TITLE}} replaced by the title and its {{CONTENT}} by the HTML, title and HTML
\* inserted unchanged.
C7_DirectSubstitution ==
    dpc = "print_templated" =>
        written = <<Substituted(template, title, html_content)>>

\* C8: every report names the step that failed: the input-not-found report only
\* a failed read of the input, the template warning only a failed read of the
\* template, and a failure of any other step is reported as a conversion error.
C8_ReportsNameFailedStep ==
    \A k \in 1..Len(err) :
        /\ err[k].report = "Error: File input_file not found" =>
              err[k].step = "read_input"
        /\ err[k].report = "Warning: Template file not found" =>
              err[k].step = "read_template"
        /\ err[k].step \notin {"read_input", "read_template"} =>
              err[k].report = "Error converting file"

====
